---- MODULE Spec2Model ----
(***************************************************************************)
(* Model of src/app.py: the OCR engine orchestrator                        *)
(* (ProductionOCREngine.extract_text) and the task lifecycle               *)
(* (upload_files, cleanup_old_tasks, get_progress, download_results,       *)
(* process_images_background) over the shared table processing_tasks.      *)
(*                                                                         *)
(* Strings are sequences of tokens (a token is a TLA+ string), so that     *)
(* strip, join and the f-string formatting are computed, not assumed.      *)
(***************************************************************************)
EXTENDS Integers, Sequences, FiniteSets, TLC

VARIABLES
    engines,          \* keys of ProductionOCREngine.engines, in insertion order
    ocr_engine,       \* module global: "engine" or "None"
    ex_mode,          \* extract_text argument: mode
    ex_out,           \* what each backend does on this image
    ex_result,        \* outcome of the extract_text call, or None
    processing_tasks, \* keys of the dict processing_tasks
    records,          \* the task dict objects (still alive after del)
    next_id,          \* number of uuid4() values drawn so far, plus one
    runner,           \* per task: the background thread's position and locals
    handler,          \* per request thread: position and locals
    now               \* time.time()

vars == <<engines, ocr_engine, ex_mode, ex_out, ex_result, processing_tasks,
          records, next_id, runner, handler, now>>

exVars == <<engines, ocr_engine, ex_mode, ex_out, ex_result>>
taskVars == <<processing_tasks, records, next_id, runner, handler, now>>

None == "None"

\* None where a string is expected (a task's error, a response's error).
NoError == <<None>>

(***************************************************************************)
(* Strings                                                                 *)
(***************************************************************************)
Whitespace == {" ", "\n"}

RECURSIVE lstrip(_)
lstrip(s) ==
    IF s = <<>> THEN <<>>
    ELSE IF Head(s) \in Whitespace THEN lstrip(Tail(s)) ELSE s

RECURSIVE rstrip(_)
rstrip(s) ==
    IF s = <<>> THEN <<>>
    ELSE IF s[Len(s)] \in Whitespace THEN rstrip(SubSeq(s, 1, Len(s) - 1)) ELSE s

\* str.strip()
strip(s) == rstrip(lstrip(s))

\* sep.join(parts)
RECURSIVE join(_, _)
join(sep, parts) ==
    IF parts = <<>> THEN <<>>
    ELSE IF Len(parts) = 1 THEN parts[1]
    ELSE parts[1] \o sep \o join(sep, Tail(parts))

\* str(n) for the small numbers of the model
str(n) == <<"0", "1", "2", "3", "4", "5", "6", "7", "8", "9">>[n + 1]

\* str.upper() on the engine names
upper(name) ==
    CASE name = "easyocr" -> "EASYOCR"
      [] name = "paddleocr" -> "PADDLEOCR"
      [] name = "tesseract" -> "TESSERACT"
      [] name = "opencv" -> "OPENCV"

(***************************************************************************)
(* ProductionOCREngine                                                     *)
(***************************************************************************)
\* The order in which _initialize_engines inserts into self.engines.
RegistrationOrder == <<"easyocr", "paddleocr", "tesseract", "opencv">>

EngineNames == {RegistrationOrder[k] : k \in 1..Len(RegistrationOrder)}

Min(S) == CHOOSE x \in S : \A y \in S : x <= y

InSeq(x, s) == \E k \in 1..Len(s) : s[k] = x

\* _initialize_engines: each candidate whose import/constructor succeeds is
\* inserted, in the fixed order; a failure skips only that candidate.
_initialize_engines(importable) ==
    LET Keep(name) == name \in importable
    IN SelectSeq(RegistrationOrder, Keep)

is_ready(engs) == Len(engs) > 0

\* What a backend call can do: return a string, or raise an exception.
Returned(text) == [raised |-> FALSE, cls |-> None, value |-> text]
NoException == Returned(<<>>)
Raised(cls, msg) == [raised |-> TRUE, cls |-> cls, value |-> msg]

\* Raw strings a recognition library can hand back.
RawTexts == {<<>>, <<" ">>, <<"A">>, <<" ", "B", "\n">>}

ExceptionClasses == {"RuntimeError", "ValueError"}

LibraryOutcomes ==
    {Returned(t) : t \in RawTexts} \cup {Raised(c, <<"boom">>) : c \in ExceptionClasses}

\* For the contour detector: the contours that pass the aspect-ratio and size
\* test of line 206, or a cv2 error.
OpencvOutcomes ==
    {Returned(<<>>), Returned(<<"contour", "contour">>), Raised("RuntimeError", <<"cv2">>)}

\* _extract_with_easyocr / _extract_with_paddleocr: the joined lines, as is.
_extract_with_easyocr(o) == o

_extract_with_paddleocr(o) == o

\* _extract_with_tesseract returns text.strip().
_extract_with_tesseract(o) ==
    IF o.raised THEN o ELSE Returned(strip(o.value))

\* _extract_with_opencv_fallback catches its own errors and always returns
\* a message.
_extract_with_opencv_fallback(o) ==
    IF o.raised THEN Returned(<<"Basic text detection failed: ">> \o o.value)
    ELSE IF Len(o.value) > 0
         THEN Returned(<<"Detected ", "regions", " potential text regions.">>)
         ELSE Returned(<<"No clear text regions detected.">>)

\* The if/elif chain of lines 119-126.
CallBackend(engine_name, out) ==
    CASE engine_name = "easyocr" -> _extract_with_easyocr(out[engine_name])
      [] engine_name = "paddleocr" -> _extract_with_paddleocr(out[engine_name])
      [] engine_name = "tesseract" -> _extract_with_tesseract(out[engine_name])
      [] engine_name = "opencv" -> _extract_with_opencv_fallback(out[engine_name])

\* A faulty variant of PerBackendExcept: only ValueError is caught.
ExceptValueErrorOnly(cls) == cls = "ValueError"

\* "except Exception" of line 135: every class a backend raises derives from it.
PerBackendExcept(cls) == cls \in ExceptionClasses

\* "except Exception" of line 150.
OuterExcept(cls) == cls \in ExceptionClasses

\* A faulty variant of engines_to_try: in normal mode the fallback is always
\* last in the list.
EnginesToTryFallbackLast(engs, mode) ==
    IF mode = "high_accuracy" THEN engs
    ELSE LET Reg(name) == InSeq(name, engs)
         IN SelectSeq(<<"easyocr", "paddleocr", "tesseract", "opencv">>, Reg)

\* Lines 109-115: the engines to try, in order.
engines_to_try(engs, mode) ==
    IF mode = "high_accuracy" THEN engs
    ELSE LET Reg(name) == InSeq(name, engs)
             best == SelectSeq(<<"easyocr", "paddleocr", "tesseract">>, Reg)
         IN IF best = <<>> /\ InSeq("opencv", engs) THEN <<"opencv">> ELSE best

\* A faulty variant of Section: no engine label.
SectionUnlabeled(engine_name, mode, text) == strip(text)

\* Lines 128-133: what is appended to results for a non-empty result.
Section(engine_name, mode, text) ==
    IF mode = "high_accuracy"
    THEN <<"[", upper(engine_name), "]", "\n">> \o strip(text)
    ELSE strip(text)

\* A faulty variant of BreakAfterSuccess: the loop never breaks.
BreakNever(mode) == FALSE

\* Line 133: break after the first success, in every mode but high_accuracy.
BreakAfterSuccess(mode) == mode # "high_accuracy"

\* Line 136: the error message recorded for a backend that raised.
error_msg(engine_name, e) == <<engine_name, " failed: ">> \o e.value

\* The for loop of lines 117-139.  st carries results, errors, the backends
\* invoked so far (in order) and an exception that escaped the inner try.
RECURSIVE ExtractLoop(_, _, _, _)
ExtractLoop(todo, mode, out, st) ==
    IF todo = <<>> THEN st
    ELSE
      LET engine_name == Head(todo)
          result == CallBackend(engine_name, out)
          seen == [st EXCEPT !.invoked = Append(@, engine_name)]
      IN IF result.raised
         THEN IF PerBackendExcept(result.cls)
              THEN ExtractLoop(Tail(todo), mode, out,
                     [seen EXCEPT !.errors = Append(@, error_msg(engine_name, result))])
              ELSE [seen EXCEPT !.escaped = result]
         ELSE IF result.value # <<>> /\ strip(result.value) # <<>>
              THEN LET got == [seen EXCEPT !.results =
                                 Append(@, Section(engine_name, mode, result.value))]
                   IN IF BreakAfterSuccess(mode) THEN got
                      ELSE ExtractLoop(Tail(todo), mode, out, got)
              ELSE ExtractLoop(Tail(todo), mode, out, seen)

\* A faulty variant of Aggregate: the recorded errors are left out of the
\* diagnostic.
AggregateWithoutErrors(st) ==
    IF st.results # <<>> THEN join(<<"\n\n">>, st.results)
    ELSE <<"Text extraction failed. Errors: ">> \o <<"No text detected">>

\* Lines 141-148: the text returned after the loop.
Aggregate(st) ==
    IF st.results # <<>> THEN join(<<"\n\n">>, st.results)
    ELSE <<"Text extraction failed. Errors: ">> \o
         (IF st.errors # <<>> THEN join(<<"; ">>, st.errors) ELSE <<"No text detected">>)

NotReadyMessage == <<"No OCR engines available. Please install easyocr, paddleocr, or tesseract.">>

\* extract_text, lines 99-152.  The record returned holds the value handed to
\* the caller (ret), whether an exception left the function (raised), and the
\* trace of the call (tried: engines_to_try; invoked, results, errors).
extract_text(engs, mode, out) ==
    IF ~is_ready(engs)
    THEN [ret |-> NotReadyMessage, raised |-> FALSE, tried |-> <<>>,
          invoked |-> <<>>, results |-> <<>>, errors |-> <<>>]
    ELSE
      LET tried == engines_to_try(engs, mode)
          st == ExtractLoop(tried, mode, out,
                  [results |-> <<>>, errors |-> <<>>, invoked |-> <<>>, escaped |-> NoException])
      IN IF st.escaped.raised
         THEN \* only "except Exception" of line 150 stands between it and the caller
              IF OuterExcept(st.escaped.cls)
              THEN [ret |-> <<"Critical OCR error: ">> \o st.escaped.value,
                    raised |-> FALSE, tried |-> tried, invoked |-> st.invoked,
                    results |-> st.results, errors |-> st.errors]
              ELSE [ret |-> <<>>, raised |-> TRUE, tried |-> tried,
                    invoked |-> st.invoked, results |-> st.results,
                    errors |-> st.errors]
         ELSE [ret |-> Aggregate(st), raised |-> FALSE, tried |-> tried,
               invoked |-> st.invoked, results |-> st.results, errors |-> st.errors]

Modes == {"normal", "high_accuracy", "fast"}

\* Every registry _initialize_engines can build.
Registries == {_initialize_engines(S) : S \in SUBSET EngineNames}

BackendOutcomes ==
    {o \in [EngineNames -> LibraryOutcomes \cup OpencvOutcomes] :
        /\ o["opencv"] \in OpencvOutcomes
        /\ \A e \in EngineNames \ {"opencv"} : o[e] \in LibraryOutcomes}


(***************************************************************************)
(* Extraction alone: extract_text applied to every registry, mode and      *)
(* combination of backend outcomes.                                        *)
(***************************************************************************)
NoResult ==
    [ret |-> <<>>, raised |-> FALSE, tried |-> <<>>, invoked |-> <<>>,
     results |-> <<>>, errors |-> <<>>, called |-> FALSE]

ExtractCall ==
    /\ ~ex_result.called
    /\ LET r == extract_text(engines, ex_mode, ex_out)
       IN ex_result' = [ret |-> r.ret, raised |-> r.raised, tried |-> r.tried,
                        invoked |-> r.invoked, results |-> r.results,
                        errors |-> r.errors, called |-> TRUE]
    /\ UNCHANGED <<engines, ocr_engine, ex_mode, ex_out>>
    /\ UNCHANGED taskVars

(***************************************************************************)
(* Tasks                                                                   *)
(***************************************************************************)
\* Bounds of the model: the submissions accepted (ids drawn), the files of
\* one submission to the service, the request threads running at once, and
\* the instants after 0 at which the clock is read.
MaxTasks == 2
MaxFiles == 1
NumHandlers == 1
MaxTicks == 2

\* Line 295.
task_cleanup_threshold == 3600

\* Line 290: app.config['MAX_CONTENT_LENGTH'].
MAX_CONTENT_LENGTH == 16 * 1024 * 1024

\* The instants at which the clock of the model is read: 0, then for each
\* further retention window its end and the second after it, so that an age
\* below, equal to and above the threshold all occur.
Instant(k) ==
    ((k + 1) \div 2) * task_cleanup_threshold + (IF k > 0 /\ k % 2 = 0 THEN 1 ELSE 0)

Instants == {Instant(k) : k \in 0..MaxTicks}

Absent == 0 - 1

TaskIds == 1..MaxTasks
\* An id no uuid4() call ever returned.
UnknownId == MaxTasks + 1
Handlers == 1..NumHandlers

\* Uploaded files: filename as <<stem, extension>>, the size in bytes, and what
\* reading and decoding the stream gives.
File(stem, ext, size, data) ==
    [filename |-> <<stem, ext>>, size |-> size, data |-> data]

UploadedFiles ==
    {File("a", ".png", 1024, "image"),
     File("b", ".JPG", 1024, "corrupt"),
     File("c", ".png", 1024, "unreadable"),
     File("d", ".txt", 1024, "image"),
     File("", "", 1024, "image"),
     File("e", ".png", MAX_CONTENT_LENGTH + 1, "image")}

SeqsUpTo(S, n) == UNION {[1..k -> S] : k \in 0..n}

\* What the backends return on a decoded image of the model.
ImageOutcome ==
    [e \in EngineNames |->
        IF e = "opencv" THEN Returned(<<"contour", "contour">>)
        ELSE IF e = "easyocr" THEN Returned(<<>>)
        ELSE Returned(<<" ", "B", "\n">>)]

allowed_extensions == {".png", ".jpg", ".jpeg", ".bmp", ".tiff", ".gif", ".webp"}

\* str.lower() on the extensions of the model
lower(ext) == IF ext = ".JPG" THEN ".jpg" ELSE ext

\* os.path.splitext(filename)[1]
splitext1(filename) == filename[2]

\* bool(file.filename)
HasFilename(file) == file.filename # <<"", "">>

\* Lines 376-394: one file of the validation loop.
IsValidFile(file) ==
    /\ HasFilename(file)
    /\ lower(splitext1(file.filename)) \in allowed_extensions
    /\ ~(file.size > MAX_CONTENT_LENGTH)

valid_files(files) == SelectSeq(files, IsValidFile)

\* werkzeug's secure_filename on the names of the model: the name, joined.
secure_filename(filename) == filename[1] \o filename[2]

\* Lines 403-411.
NewTask(n, t) ==
    [status |-> "starting", progress |-> 0, files_processed |-> 0,
     total_files |-> n, results |-> <<>>, error |-> NoError, created_at |-> t,
     completed_at |-> Absent, estimated_remaining |-> Absent]

\* A record slot no task was created for yet.
NoTask ==
    [status |-> "unborn", progress |-> 0, files_processed |-> 0,
     total_files |-> 0, results |-> <<>>, error |-> NoError, created_at |-> Absent,
     completed_at |-> Absent, estimated_remaining |-> Absent]

NoRunner == [pc |-> "unborn", i |-> 0, files |-> <<>>, mode |-> None]

NoResponse ==
    [route |-> None, code |-> 0, error |-> NoError, body |-> <<>>, task_id |-> 0,
     status |-> None, active_tasks |-> Absent]

\* The request a thread that serves no submission holds: none.
NoRequest == [has_files |-> FALSE, files |-> <<>>, mode |-> None]

IdleHandler ==
    [pc |-> "idle", task_id |-> 0, current_time |-> 0, di_used |-> 0,
     di_pos |-> 1, tasks_to_remove |-> <<>>, request |-> NoRequest,
     response |-> NoResponse]

Response(route, code, error, id) ==
    [route |-> route, code |-> code, error |-> error, body |-> <<>>,
     task_id |-> id, status |-> None, active_tasks |-> Absent]

\* The state right after the module is imported.
TaskInit ==
    /\ processing_tasks = {}
    /\ records = [id \in TaskIds |-> NoTask]
    /\ next_id = 1
    /\ runner = [id \in TaskIds |-> NoRunner]
    /\ handler = [h \in Handlers |-> IdleHandler]
    /\ now = 0

Init ==
    /\ engines = _initialize_engines(EngineNames)
    /\ ocr_engine \in {"engine", None}
    /\ ex_mode = "normal"
    /\ ex_out = ImageOutcome
    /\ ex_result = NoResult
    /\ TaskInit

ExtractInit ==
    /\ engines \in Registries
    /\ ocr_engine = "engine"
    /\ ex_mode \in Modes
    /\ ex_out \in BackendOutcomes
    /\ ex_result = NoResult
    /\ TaskInit

\* time.time() moves on.
Tick ==
    /\ now < Instant(MaxTicks)
    /\ now' = Min({t \in Instants : t > now})
    /\ UNCHANGED <<processing_tasks, records, next_id, runner, handler>>
    /\ UNCHANGED exVars

(***************************************************************************)
(* process_images_background                                               *)
(***************************************************************************)
\* A faulty variant of ProgressAt: the share of the files still to come.
ProgressRemaining(i, n) == ((n - i) * 100) \div n

\* Python floats are IEEE 754 doubles: 53 significant bits, results rounded
\* to nearest, ties to even.  A significand is a sequence of bits, the most
\* significant first.
DoubleBits == 53

Front(b) == SubSeq(b, 1, Len(b) - 1)

Last(b) == b[Len(b)]

\* b without its leading zeros.
StripZeros(b) ==
    LET ones == {j \in 1..Len(b) : b[j] = 1}
    IN IF ones = {} THEN <<>> ELSE SubSeq(b, Min(ones), Len(b))

RECURSIVE ToBits(_)
ToBits(k) == IF k = 0 THEN <<>> ELSE Append(ToBits(k \div 2), k % 2)

\* The lowest len bits of k.
LowBits(k, len) == [j \in 1..len |-> (k \div 2^(len - j)) % 2]

RECURSIVE ToInt(_)
ToInt(b) == IF b = <<>> THEN 0 ELSE 2 * ToInt(Front(b)) + Last(b)

\* b + 1.
Increment(b) ==
    LET zeros == {j \in 1..Len(b) : b[j] = 0}
    IN IF zeros = {} THEN <<1>> \o [j \in 1..Len(b) |-> 0]
       ELSE LET z == CHOOSE j \in zeros : \A k \in zeros : k <= j
            IN [j \in 1..Len(b) |-> IF j < z THEN b[j] ELSE IF j = z THEN 1 ELSE 0]

\* b * c + carry for a small c, ten bits of b at a time.
RECURSIVE TimesSmall(_, _, _)
TimesSmall(b, c, carry) ==
    IF b = <<>> THEN ToBits(carry)
    ELSE LET len == IF Len(b) < 10 THEN Len(b) ELSE 10
             v == ToInt(SubSeq(b, Len(b) - len + 1, Len(b))) * c + carry
         IN TimesSmall(SubSeq(b, 1, Len(b) - len), c, v \div 2^len)
            \o LowBits(v, len)

\* 2^k modulo n.
RECURSIVE Pow2Mod(_, _)
Pow2Mod(k, n) ==
    IF k = 0 THEN 1 % n
    ELSE LET half == Pow2Mod(k \div 2, n)
         IN (half * half * (IF k % 2 = 1 THEN 2 ELSE 1)) % n

\* The first k bits of rem * 2^k / n and what remains, for rem < n: long
\* division, whose j-th step doubles the remainder of step j - 1.
DivBits(rem, n, k) ==
    [q |-> [j \in 1..k |-> (2 * ((rem * Pow2Mod(j - 1, n)) % n)) \div n],
     r |-> (rem * Pow2Mod(k, n)) % n]

\* The least t with i * 2^t >= n.
RECURSIVE Shift(_, _)
Shift(i, n) == IF i >= n THEN 0 ELSE 1 + Shift(2 * i, n)

\* The double i / n for 0 < i < n, as [m, e]: the value m / 2^e.
TrueDiv(i, n) ==
    LET exponent == Shift(i, n) + DoubleBits - 1
        division == DivBits(i, n, exponent)
        quotient == StripZeros(division.q)
        up == \/ 2 * division.r > n
              \/ 2 * division.r = n /\ Last(quotient) = 1
    IN [m |-> IF up THEN Increment(quotient) ELSE quotient, e |-> exponent]

\* An exact significand rounded to DoubleBits bits, as [m, shift]: the
\* value m * 2^shift.
RoundBits(b) ==
    IF Len(b) <= DoubleBits THEN [m |-> b, shift |-> 0]
    ELSE LET kept == SubSeq(b, 1, DoubleBits)
             rest == SubSeq(b, DoubleBits + 1, Len(b))
             up == /\ Head(rest) = 1
                   /\ \/ Last(kept) = 1
                      \/ \E k \in 2..Len(rest) : rest[k] = 1
         IN [m |-> IF up THEN Increment(kept) ELSE kept,
             shift |-> Len(b) - DoubleBits]

\* The double x * c for a double x = [m, e] and a small integer c.
FloatTimes(x, c) ==
    LET rounded == RoundBits(StripZeros(TimesSmall(x.m, c, 0)))
    IN [m |-> rounded.m, e |-> x.e - rounded.shift]

\* int(x) for a double x = [m, e] >= 0 with e >= 0.
TruncToInt(x) ==
    IF Len(x.m) <= x.e THEN 0 ELSE ToInt(SubSeq(x.m, 1, Len(x.m) - x.e))

\* Line 506: int((i / len(files)) * 100), for 0 <= i < len(files).
ProgressAt(i, n) ==
    IF i = 0 THEN 0 ELSE TruncToInt(FloatTimes(TrueDiv(i, n), 100))

\* Lines 510-519 for one file: the text, or the exception raised.
ProcessFile(file, mode) ==
    IF file.data = "unreadable"
    THEN Raised("ValueError", <<"I/O operation on closed file.">>)
    ELSE IF file.data = "corrupt"
    THEN Raised("ValueError",
                <<"Image processing completely failed: ", "Could not decode image">>)
    ELSE IF ocr_engine = None
    THEN Raised("AttributeError", <<"'NoneType' object has no attribute 'extract_text'">>)
    ELSE LET ex == extract_text(engines, mode, ImageOutcome)
         IN IF ex.raised THEN Raised("RuntimeError", <<"boom">>)
            ELSE Returned(ex.ret)

\* Lines 522-526 and 533-537: the entry appended for one file.
\* (processed_at, a timestamp the program writes here and never reads, is
\* left out of the entry.)
ResultEntry(file, i, outcome) ==
    IF outcome.raised
    THEN [filename |-> IF HasFilename(file) THEN secure_filename(file.filename)
                       ELSE <<"file_", str(i + 1)>>,
          text |-> <<"Error processing file: ">> \o outcome.value]
    ELSE [filename |-> secure_filename(file.filename),
          text |-> outcome.value]

SetRunner(id, pc) == runner' = [runner EXCEPT ![id].pc = pc]

RunnerFrame == <<processing_tasks, next_id, handler, now>>

\* Line 501: task = processing_tasks[task_id].  When the key is gone the
\* KeyError reaches line 547, where task is unbound: line 549 raises
\* UnboundLocalError and the thread ends.
RunnerLookup(id) ==
    /\ runner[id].pc = "l501"
    /\ IF id \in processing_tasks
       THEN SetRunner(id, "l502")
       ELSE SetRunner(id, "died")
    /\ UNCHANGED records
    /\ UNCHANGED RunnerFrame
    /\ UNCHANGED exVars

\* Line 502.
RunnerSetProcessing(id) ==
    /\ runner[id].pc = "l502"
    /\ records' = [records EXCEPT ![id].status = "processing"]
    /\ SetRunner(id, IF runner[id].files = <<>> THEN "l540" ELSE "l506")
    /\ UNCHANGED RunnerFrame
    /\ UNCHANGED exVars

\* Line 506.
RunnerSetProgress(id) ==
    /\ runner[id].pc = "l506"
    /\ records' = [records EXCEPT
                     ![id].progress = ProgressAt(runner[id].i, Len(runner[id].files))]
    /\ SetRunner(id, "l507")
    /\ UNCHANGED RunnerFrame
    /\ UNCHANGED exVars

\* Line 507.
RunnerSetFilesProcessed(id) ==
    /\ runner[id].pc = "l507"
    /\ records' = [records EXCEPT ![id].files_processed = runner[id].i]
    /\ SetRunner(id, "l510")
    /\ UNCHANGED RunnerFrame
    /\ UNCHANGED exVars

\* A faulty variant of RunnerProcessFile: no per-file try, a failing file
\* ends the loop in the handler of line 547.
RunnerProcessFileNoIsolation(id) ==
    /\ runner[id].pc = "l510"
    /\ LET r == runner[id]
           file == r.files[r.i + 1]
           outcome == ProcessFile(file, r.mode)
       IN IF outcome.raised
          THEN /\ records' = [records EXCEPT
                                ![id].status = "error",
                                ![id].error = outcome.value,
                                ![id].completed_at = now]
               /\ runner' = [runner EXCEPT ![id].pc = "done"]
          ELSE /\ records' = [records EXCEPT
                                ![id].results = Append(@, ResultEntry(file, r.i, outcome))]
               /\ runner' = [runner EXCEPT
                               ![id].i = r.i + 1,
                               ![id].pc = IF r.i + 1 < Len(r.files)
                                          THEN "l506" ELSE "l540"]
    /\ UNCHANGED RunnerFrame
    /\ UNCHANGED exVars

\* Lines 510-537 for file i, then the next iteration of the for loop.
RunnerProcessFile(id) ==
    /\ runner[id].pc = "l510"
    /\ LET r == runner[id]
           file == r.files[r.i + 1]
           entry == ResultEntry(file, r.i, ProcessFile(file, r.mode))
       IN /\ records' = [records EXCEPT ![id].results = Append(@, entry)]
          /\ runner' = [runner EXCEPT
                          ![id].i = r.i + 1,
                          ![id].pc = IF r.i + 1 < Len(r.files) THEN "l506" ELSE "l540"]
    /\ UNCHANGED RunnerFrame
    /\ UNCHANGED exVars

\* Line 540.
RunnerSetCompleted(id) ==
    /\ runner[id].pc = "l540"
    /\ records' = [records EXCEPT ![id].status = "completed"]
    /\ SetRunner(id, "l541")
    /\ UNCHANGED RunnerFrame
    /\ UNCHANGED exVars

\* Line 541.
RunnerSetProgress100(id) ==
    /\ runner[id].pc = "l541"
    /\ records' = [records EXCEPT ![id].progress = 100]
    /\ SetRunner(id, "l542")
    /\ UNCHANGED RunnerFrame
    /\ UNCHANGED exVars

\* Line 542.
RunnerSetAllProcessed(id) ==
    /\ runner[id].pc = "l542"
    /\ records' = [records EXCEPT ![id].files_processed = Len(runner[id].files)]
    /\ SetRunner(id, "l543")
    /\ UNCHANGED RunnerFrame
    /\ UNCHANGED exVars

\* Line 543, and the end of the thread.
RunnerSetCompletedAt(id) ==
    /\ runner[id].pc = "l543"
    /\ records' = [records EXCEPT ![id].completed_at = now]
    /\ SetRunner(id, "done")
    /\ UNCHANGED RunnerFrame
    /\ UNCHANGED exVars

Runner(id) ==
    \/ RunnerLookup(id)
    \/ RunnerSetProcessing(id)
    \/ RunnerSetProgress(id)
    \/ RunnerSetFilesProcessed(id)
    \/ RunnerProcessFile(id)
    \/ RunnerSetCompleted(id)
    \/ RunnerSetProgress100(id)
    \/ RunnerSetAllProcessed(id)
    \/ RunnerSetCompletedAt(id)


(***************************************************************************)
(* Request handlers.  Flask serves each request on its own thread; a       *)
(* handler thread is idle between requests.                                *)
(***************************************************************************)
HandlerFrame == <<next_id, runner, now>>

\* The handler returns: the response is on its way to the client.
Respond(h, resp) ==
    handler' = [handler EXCEPT ![h] =
                  [IdleHandler EXCEPT !.pc = "responded", !.response = resp]]

\* The response is delivered; the thread is free for the next request.
Deliver(h) ==
    /\ handler[h].pc = "responded"
    /\ handler' = [handler EXCEPT ![h] = IdleHandler]
    /\ UNCHANGED <<processing_tasks, records>>
    /\ UNCHANGED HandlerFrame
    /\ UNCHANGED exVars

\* get_status, lines 328-349.
GetStatus(h) ==
    /\ handler[h].pc = "idle"
    /\ Respond(h, IF ocr_engine = None
                  THEN [Response("status", 200, NoError, 0) EXCEPT !.status = "error"]
                  ELSE [Response("status", 200, NoError, 0) EXCEPT
                          !.status = IF is_ready(engines) THEN "ready" ELSE "limited",
                          !.active_tasks = Cardinality(processing_tasks)])
    /\ UNCHANGED <<processing_tasks, records>>
    /\ UNCHANGED HandlerFrame
    /\ UNCHANGED exVars

\* A POST /upload arrives with one of the given requests; upload_files,
\* line 359 -> cleanup_old_tasks, lines 299-302: the time is read and the
\* iteration over processing_tasks.items() begins.
CleanupBegin(h, requests) ==
    /\ handler[h].pc = "idle"
    /\ \E req \in requests :
         handler' = [handler EXCEPT ![h] =
                       [IdleHandler EXCEPT
                          !.pc = "l302",
                          !.request = req,
                          !.current_time = now,
                          !.di_used = Cardinality(processing_tasks),
                          !.di_pos = 1]]
    /\ UNCHANGED <<processing_tasks, records>>
    /\ UNCHANGED HandlerFrame
    /\ UNCHANGED exVars

\* A faulty variant of IsExpired: expired as soon as the age reaches the
\* threshold.
IsExpiredAtOrAfter(task, current_time) ==
    current_time - task.created_at >= task_cleanup_threshold

\* Line 304.
IsExpired(task, current_time) ==
    current_time - task.created_at > task_cleanup_threshold

\* The entries of the dict still to be visited by an iterator at di_pos.
\* Keys are inserted in the order of their ids, and the table of the model
\* is never resized, so an entry's position is its id.
EntriesFrom(di_pos) == {id \in processing_tasks : id >= di_pos}

\* Lines 302-305: one step of the for loop.  The dict iterator raises
\* RuntimeError when the size of the dict is not the one it started with;
\* the error is caught at line 426 of upload_files.
CleanupIterate(h) ==
    /\ handler[h].pc = "l302"
    /\ LET me == handler[h] IN
       IF me.di_used # Cardinality(processing_tasks)
       THEN Respond(h, Response("upload", 500,
                <<"Upload failed: ", "dictionary changed size during iteration">>,
                0))
       ELSE IF EntriesFrom(me.di_pos) = {}
       THEN \* the iterator is exhausted and dropped
            handler' = [handler EXCEPT
                          ![h].pc = IF me.tasks_to_remove = <<>> THEN "l361" ELSE "l307",
                          ![h].di_used = 0,
                          ![h].di_pos = 1]
       ELSE LET task_id == Min(EntriesFrom(me.di_pos))
            IN handler' = [handler EXCEPT
                             ![h].di_pos = task_id + 1,
                             ![h].tasks_to_remove =
                                IF IsExpired(records[task_id], me.current_time)
                                THEN Append(@, task_id) ELSE @]
    /\ UNCHANGED <<processing_tasks, records>>
    /\ UNCHANGED HandlerFrame
    /\ UNCHANGED exVars

\* Lines 307-312: one del; a KeyError is passed over.
CleanupDelete(h) ==
    /\ handler[h].pc = "l307"
    /\ LET me == handler[h]
           task_id == Head(me.tasks_to_remove)
       IN /\ processing_tasks' = processing_tasks \ {task_id}
          /\ handler' = [handler EXCEPT
                           ![h].tasks_to_remove = Tail(@),
                           ![h].pc = IF Len(me.tasks_to_remove) = 1
                                     THEN "l361" ELSE "l307"]
    /\ UNCHANGED records
    /\ UNCHANGED HandlerFrame
    /\ UNCHANGED exVars

\* Submissions: whether the request has a 'files' part, its files, its mode.
RequestsOver(files, n, modes) ==
    [has_files : {FALSE}, files : {<<>>}, mode : {"normal"}]
    \cup [has_files : {TRUE}, files : SeqsUpTo(files, n) \ {<<>>}, mode : modes]

RECURSIVE TotalSize(_)
TotalSize(files) ==
    IF files = <<>> THEN 0 ELSE Head(files).size + TotalSize(Tail(files))

\* Lines 364-397: the response of a submission that is turned down, or
\* NoResponse.  Reading request.files raises RequestEntityTooLarge when the
\* body is longer than MAX_CONTENT_LENGTH (line 424).
UploadRejection(req) ==
    IF TotalSize(req.files) > MAX_CONTENT_LENGTH
    THEN Response("upload", 413, <<"File too large. Maximum size is 16MB.">>, 0)
    ELSE IF ~req.has_files
    THEN Response("upload", 400, <<"No files uploaded">>, 0)
    ELSE IF req.files = <<>>
    THEN Response("upload", 400, <<"No files provided">>, 0)
    ELSE IF valid_files(req.files) = <<>>
    THEN Response("upload", 400, <<"No valid image files found">>, 0)
    ELSE NoResponse

\* A faulty variant of UploadReject: the record is inserted before the
\* request is validated, and stays when the request is turned down.
UploadRejectAfterInsert(h) ==
    /\ handler[h].pc = "l361"
    /\ IF ocr_engine = None
       THEN Respond(h, Response("upload", 503, <<"OCR engine not available">>, 0))
       ELSE /\ UploadRejection(handler[h].request) # NoResponse
            /\ Respond(h, UploadRejection(handler[h].request))
    /\ IF next_id \in TaskIds
       THEN /\ processing_tasks' = processing_tasks \cup {next_id}
            /\ records' = [records EXCEPT ![next_id] = NewTask(0, now)]
       ELSE UNCHANGED <<processing_tasks, records>>
    /\ UNCHANGED HandlerFrame
    /\ UNCHANGED exVars

\* Lines 361-397, a submission that is turned down.
UploadReject(h) ==
    /\ handler[h].pc = "l361"
    /\ IF ocr_engine = None
       THEN Respond(h, Response("upload", 503, <<"OCR engine not available">>, 0))
       ELSE /\ UploadRejection(handler[h].request) # NoResponse
            /\ Respond(h, UploadRejection(handler[h].request))
    /\ UNCHANGED <<processing_tasks, records>>
    /\ UNCHANGED HandlerFrame
    /\ UNCHANGED exVars

\* Lines 361-422 of a submission that passes: the record is inserted, the
\* thread started, the id returned.  (ids: the ids uuid4() has in store.)
UploadAccept(h, ids) ==
    /\ handler[h].pc = "l361"
    /\ ocr_engine # None
    /\ UploadRejection(handler[h].request) = NoResponse
    /\ next_id \in ids
    /\ LET task_id == next_id
           files == valid_files(handler[h].request.files)
       IN /\ processing_tasks' = processing_tasks \cup {task_id}
          /\ records' = [records EXCEPT ![task_id] = NewTask(Len(files), now)]
          /\ runner' = [runner EXCEPT ![task_id] =
                          [pc |-> "l501", i |-> 0, files |-> files,
                           mode |-> handler[h].request.mode]]
          /\ next_id' = next_id + 1
          /\ Respond(h, Response("upload", 200, NoError, task_id))
    /\ UNCHANGED now
    /\ UNCHANGED exVars

\* get_progress, line 434.
ProgressCheck(h) ==
    /\ handler[h].pc = "idle"
    /\ \E task_id \in 1..UnknownId :
         /\ task_id < next_id \/ task_id = UnknownId
         /\ IF task_id \notin processing_tasks
            THEN Respond(h, Response("progress", 404, <<"Task not found">>, task_id))
            ELSE handler' = [handler EXCEPT ![h] =
                               [IdleHandler EXCEPT !.pc = "l437", !.task_id = task_id]]
    /\ UNCHANGED <<processing_tasks, records>>
    /\ UNCHANGED HandlerFrame
    /\ UNCHANGED exVars

\* round(x, 1) of x = num / den, in tenths (halves to even).
RoundTenths(num, den) ==
    LET q == (10 * num) \div den
        r == (10 * num) % den
    IN IF 2 * r > den \/ (2 * r = den /\ q % 2 = 1) THEN q + 1 ELSE q

\* Lines 440-445, in tenths of a second.
EstimatedRemaining(task, t) ==
    RoundTenths((t - task.created_at) * (task.total_files - task.files_processed),
                task.files_processed)

\* get_progress, lines 437-447.
ProgressRead(h) ==
    /\ handler[h].pc = "l437"
    /\ LET task_id == handler[h].task_id IN
       IF task_id \notin processing_tasks
       THEN /\ Respond(h, Response("progress", 500, <<"'", "task_id", "'">>, task_id))
            /\ UNCHANGED records
       ELSE LET task == records[task_id] IN
            /\ records' =
                 IF task.status = "processing" /\ task.files_processed > 0
                 THEN [records EXCEPT ![task_id].estimated_remaining =
                         EstimatedRemaining(task, now)]
                 ELSE records
            /\ Respond(h, Response("progress", 200, NoError, task_id))
    /\ UNCHANGED processing_tasks
    /\ UNCHANGED HandlerFrame
    /\ UNCHANGED exVars

\* download_results, line 456.
DownloadCheck(h) ==
    /\ handler[h].pc = "idle"
    /\ \E task_id \in 1..UnknownId :
         /\ task_id < next_id \/ task_id = UnknownId
         /\ IF task_id \notin processing_tasks
            THEN Respond(h, Response("download", 404, <<"Task not found">>, task_id))
            ELSE handler' = [handler EXCEPT ![h] =
                               [IdleHandler EXCEPT !.pc = "l459", !.task_id = task_id]]
    /\ UNCHANGED <<processing_tasks, records>>
    /\ UNCHANGED HandlerFrame
    /\ UNCHANGED exVars

\* Lines 467-478: the lines of the report.
RECURSIVE ReportLines(_, _)
ReportLines(results, i) ==
    IF results = <<>> THEN <<>>
    ELSE <<[line |-> "file", index |-> i, text |-> Head(results).filename],
           [line |-> "rule30", index |-> 0, text |-> <<>>],
           [line |-> "text", index |-> 0, text |-> Head(results).text],
           [line |-> "blank", index |-> 0, text |-> <<>>]>>
         \o ReportLines(Tail(results), i + 1)

Render(task) ==
    <<[line |-> "header", index |-> 0, text |-> <<>>],
      [line |-> "rule50", index |-> 0, text |-> <<>>],
      [line |-> "blank", index |-> 0, text |-> <<>>]>>
    \o ReportLines(task.results, 1)

\* A faulty variant of DownloadRead: the status of the task is not looked
\* at, a report is made of whatever results there are.
DownloadReadAnyStatus(h) ==
    /\ handler[h].pc = "l459"
    /\ LET task_id == handler[h].task_id IN
       IF task_id \notin processing_tasks
       THEN Respond(h, Response("download", 500,
                                <<"Download failed: ", "'", "task_id", "'">>, task_id))
       ELSE LET task == records[task_id] IN
            IF task.results = <<>>
            THEN Respond(h, Response("download", 404, <<"No results available">>,
                                     task_id))
            ELSE Respond(h, [Response("download", 200, NoError, task_id)
                               EXCEPT !.body = Render(task)])
    /\ UNCHANGED <<processing_tasks, records>>
    /\ UNCHANGED HandlerFrame
    /\ UNCHANGED exVars

\* download_results, lines 459-492.
DownloadRead(h) ==
    /\ handler[h].pc = "l459"
    /\ LET task_id == handler[h].task_id IN
       IF task_id \notin processing_tasks
       THEN Respond(h, Response("download", 500,
                                <<"Download failed: ", "'", "task_id", "'">>, task_id))
       ELSE LET task == records[task_id] IN
            IF task.status # "completed"
            THEN Respond(h, Response("download", 400, <<"Task not completed">>, task_id))
            ELSE IF task.results = <<>>
            THEN Respond(h, Response("download", 404, <<"No results available">>,
                                     task_id))
            ELSE Respond(h, [Response("download", 200, NoError, task_id)
                               EXCEPT !.body = Render(task)])
    /\ UNCHANGED <<processing_tasks, records>>
    /\ UNCHANGED HandlerFrame
    /\ UNCHANGED exVars

\* The requests a handler thread serves, but for the arrival of a
\* submission.
Handler(h) ==
    \/ GetStatus(h)
    \/ CleanupIterate(h)
    \/ CleanupDelete(h)
    \/ ProgressCheck(h)
    \/ ProgressRead(h)
    \/ DownloadCheck(h)
    \/ DownloadRead(h)
    \/ UploadReject(h)
    \/ Deliver(h)

(***************************************************************************)
(* The service: several tasks and request threads; submissions of at most  *)
(* MaxFiles files in normal mode.                                          *)
(***************************************************************************)
Requests ==
    RequestsOver(UploadedFiles \ {File("c", ".png", 1024, "unreadable")},
                 MaxFiles, {"normal"})

Next ==
    \/ Tick
    \/ \E id \in TaskIds : Runner(id)
    \/ \E h \in Handlers : Handler(h)
    \/ \E h \in Handlers : CleanupBegin(h, Requests)
    \/ \E h \in Handlers : UploadAccept(h, TaskIds)

Spec == Init /\ [][Next]_vars

\* The steps of thread h that serve a request already received.
Serve(h) ==
    \/ CleanupIterate(h)
    \/ CleanupDelete(h)
    \/ UploadReject(h)
    \/ UploadAccept(h, TaskIds)
    \/ ProgressRead(h)
    \/ DownloadRead(h)
    \/ Deliver(h)

\* The service under fair scheduling: a started thread (a runner, daemon
\* thread of line 414, or a request thread in the middle of a request) that
\* can take a step eventually takes one.  Requests arrive, and the clock is
\* read, as the environment pleases.
FairSpec ==
    /\ Spec
    /\ \A id \in TaskIds : WF_vars(Runner(id))
    /\ \A h \in Handlers : WF_vars(Serve(h))

(***************************************************************************)
(* One task on its own: a single submission of up to MaxBatch files of     *)
(* every kind, in either mode, served by one request thread.               *)
(***************************************************************************)
MaxBatch == 3

BatchRequests == RequestsOver(UploadedFiles, MaxBatch, {"normal", "high_accuracy"})

\* The requests of a set that lines 364-397 turn down.
TurnedDown(requests) == {req \in requests : UploadRejection(req) # NoResponse}

\* Once the task exists, the submissions that arrive are ones that create
\* no second task.
OneTaskNext ==
    \/ Tick
    \/ Runner(1)
    \/ Handler(1)
    \/ CleanupBegin(1, IF next_id = 1 THEN BatchRequests ELSE TurnedDown(Requests))
    \/ UploadAccept(1, {1})

SpecOneTask == Init /\ [][OneTaskNext]_vars

(***************************************************************************)
(* Concurrent submissions: MaxThreads request threads, each serving         *)
(* submissions of one valid file, beside the runners and the clock.        *)
(***************************************************************************)
MaxThreads == 2

Threads == 1..MaxThreads

ConcurrentRequests ==
    {[has_files |-> TRUE, files |-> <<File("a", ".png", 1024, "image")>>,
      mode |-> "normal"]}

ConcurrentInit ==
    /\ engines = _initialize_engines(EngineNames)
    /\ ocr_engine = "engine"
    /\ ex_mode = "normal"
    /\ ex_out = ImageOutcome
    /\ ex_result = NoResult
    /\ processing_tasks = {}
    /\ records = [id \in TaskIds |-> NoTask]
    /\ next_id = 1
    /\ runner = [id \in TaskIds |-> NoRunner]
    /\ handler = [h \in Threads |-> IdleHandler]
    /\ now = 0

ConcurrentNext ==
    \/ Tick
    \/ \E id \in TaskIds : Runner(id)
    \/ \E h \in Threads : CleanupBegin(h, ConcurrentRequests)
    \/ \E h \in Threads : CleanupIterate(h)
    \/ \E h \in Threads : CleanupDelete(h)
    \/ \E h \in Threads : UploadAccept(h, TaskIds)
    \/ \E h \in Threads : Deliver(h)

SpecConcurrent == ConcurrentInit /\ [][ConcurrentNext]_vars

(***************************************************************************)
(* One long batch: a single submission of up to MaxLongBatch valid files,  *)
(* and its runner.                                                         *)
(***************************************************************************)
MaxLongBatch == 50

LongRequests ==
    {[has_files |-> TRUE,
      files |-> [k \in 1..n |-> File("a", ".png", 1024, "image")],
      mode |-> "normal"] : n \in 1..MaxLongBatch}

LongBatchInit ==
    /\ engines = _initialize_engines(EngineNames)
    /\ ocr_engine = "engine"
    /\ ex_mode = "normal"
    /\ ex_out = ImageOutcome
    /\ ex_result = NoResult
    /\ TaskInit

LongBatchNext ==
    \/ CleanupBegin(1, IF next_id = 1 THEN LongRequests ELSE {})
    \/ CleanupIterate(1)
    \/ UploadAccept(1, {1})
    \/ Deliver(1)
    \/ Runner(1)

SpecLongBatch == LongBatchInit /\ [][LongBatchNext]_vars

ExtractNext == ExtractCall

SpecExtract == ExtractInit /\ [][ExtractNext]_vars

(***************************************************************************)
(* Properties of extract_text (under SpecExtract)                          *)
(***************************************************************************)
\* The trimmed text backend e hands to the loop on this image; empty when
\* the backend raises.
TrimmedOutput(e) ==
    LET r == CallBackend(e, ex_out) IN IF r.raised THEN <<>> ELSE strip(r.value)

BackendRaises(e) == CallBackend(e, ex_out).raised

Position(e) == CHOOSE k \in 1..Len(RegistrationOrder) : RegistrationOrder[k] = e

IsPrefix(a, b) == Len(a) <= Len(b) /\ SubSeq(b, 1, Len(a)) = a

InPriorityOrder(s) ==
    \A j, k \in 1..Len(s) : j < k => Position(s[j]) < Position(s[k])

NormalCall == ex_result.called /\ ex_mode # "high_accuracy" /\ is_ready(engines)

HighAccuracyCall == ex_result.called /\ ex_mode = "high_accuracy" /\ is_ready(engines)

\* C3: in normal mode the backends are invoked one at a time in the fixed
\* priority order; the call stops at the first backend whose trimmed output
\* is non-empty, returns exactly that trimmed output, and invokes no backend
\* after it.
C3_NormalStopsAtFirstNonEmpty ==
    NormalCall =>
      LET inv == ex_result.invoked
          hits == {k \in 1..Len(ex_result.tried) :
                     TrimmedOutput(ex_result.tried[k]) # <<>>}
      IN /\ InPriorityOrder(ex_result.tried)
         /\ IsPrefix(inv, ex_result.tried)
         /\ IF hits = {}
            THEN inv = ex_result.tried
            ELSE /\ Len(inv) = Min(hits)
                 /\ ex_result.ret = TrimmedOutput(inv[Len(inv)])
                 /\ \A k \in 1..(Len(inv) - 1) : TrimmedOutput(inv[k]) = <<>>

\* A normal-mode call that stopped at its second backend, with a third left
\* untried, and returned the second backend's text without its padding.
C3_Witness ==
    /\ NormalCall
    /\ Len(ex_result.tried) = 3
    /\ ex_result.invoked = <<"easyocr", "paddleocr">>
    /\ ex_out["paddleocr"].value = <<" ", "B", "\n">>
    /\ ex_result.ret = <<"B">>

HigherPriorityRegistered ==
    {e \in EngineNames \ {"opencv"} : InSeq(e, engines)}

\* C4 as stated: in normal mode, whenever every higher-priority registered
\* backend returned empty text or failed, the registered fallback backend is
\* invoked before extract_text returns.
C4_FallbackTriedLast ==
    (/\ NormalCall
     /\ InSeq("opencv", engines)
     /\ \A e \in HigherPriorityRegistered : TrimmedOutput(e) = <<>>)
    => InSeq("opencv", ex_result.invoked)

\* C4 as amended: in normal mode the fallback backend is invoked exactly
\* when it is the only registered backend; with a higher-priority backend
\* registered it is never invoked, and when all of those return empty text
\* or fail the call returns the diagnostic.
C4_FallbackOnlyWhenAlone ==
    NormalCall =>
      /\ InSeq("opencv", ex_result.invoked) <=> engines = <<"opencv">>
      /\ (/\ HigherPriorityRegistered # {}
          /\ \A e \in HigherPriorityRegistered : TrimmedOutput(e) = <<>>)
         => /\ ex_result.invoked = engines_to_try(engines, ex_mode)
            /\ ex_result.results = <<>>
            /\ Head(ex_result.ret) = "Text extraction failed. Errors: "

\* A normal-mode call with the fallback registered beside two better
\* backends, which both came back empty-handed: the fallback was not tried.
C4_Witness ==
    /\ NormalCall
    /\ engines = <<"easyocr", "tesseract", "opencv">>
    /\ \A e \in HigherPriorityRegistered : TrimmedOutput(e) = <<>>
    /\ ex_result.invoked = <<"easyocr", "tesseract">>
    /\ ~InSeq("opencv", ex_result.invoked)

\* The labeled sections expected of the backends of s, in order.
RECURSIVE ExpectedSections(_)
ExpectedSections(s) ==
    IF s = <<>> THEN <<>>
    ELSE LET e == Head(s)
         IN (IF TrimmedOutput(e) # <<>>
             THEN << <<"[", upper(e), "]", "\n">> \o TrimmedOutput(e) >>
             ELSE <<>>)
            \o ExpectedSections(Tail(s))

\* C5: in high-accuracy mode every registered backend is invoked, and the
\* returned text is one section per backend whose trimmed output is
\* non-empty, each under that backend's label, in registration order;
\* backends that returned empty text or raised contribute no section.
C5_HighAccuracyLabeledSections ==
    HighAccuracyCall =>
      /\ ex_result.invoked = engines
      /\ ex_result.results = ExpectedSections(engines)
      /\ ExpectedSections(engines) # <<>>
         => ex_result.ret = join(<<"\n\n">>, ExpectedSections(engines))

\* A high-accuracy call over four backends of which one raised and one was
\* empty: two sections.
C5_Witness ==
    /\ HighAccuracyCall
    /\ Len(engines) = 4
    /\ BackendRaises("easyocr")
    /\ TrimmedOutput("paddleocr") = <<>>
    /\ TrimmedOutput("tesseract") = <<"A">>
    /\ Len(ex_result.results) = 2
    /\ ex_result.ret[2] = "TESSERACT"

RaisedAmong(s) == {k \in 1..Len(s) : BackendRaises(s[k])}

\* C6: a backend that raises is recorded and the remaining backends of the
\* selected order are still tried (the order is cut short only by normal
\* mode's stop at a non-empty text); extract_text hands a string back for
\* every combination of backend outcomes and for an empty registry: no
\* exception leaves it.
C6_BackendFailureIsolated ==
    ex_result.called =>
      /\ ~ex_result.raised
      /\ ex_result.ret # <<>>
      /\ Len(ex_result.errors) = Cardinality(RaisedAmong(ex_result.invoked))
      /\ \/ ex_result.invoked = ex_result.tried
         \/ /\ ex_mode # "high_accuracy"
            /\ ex_result.invoked # <<>>
            /\ TrimmedOutput(ex_result.invoked[Len(ex_result.invoked)]) # <<>>
      /\ ~is_ready(engines) => ex_result.invoked = <<>>

\* A call whose first backend raised RuntimeError and whose second backend
\* was tried all the same and gave the text returned.
C6_Witness ==
    /\ ex_result.called
    /\ Len(ex_result.invoked) >= 2
    /\ ex_out[ex_result.invoked[1]] = Raised("RuntimeError", <<"boom">>)
    /\ TrimmedOutput(ex_result.invoked[2]) # <<>>
    /\ ~ex_result.raised
    /\ Len(ex_result.errors) = 1

\* The error messages expected of the backends of s that raise, in order.
RECURSIVE ExpectedErrors(_)
ExpectedErrors(s) ==
    IF s = <<>> THEN <<>>
    ELSE (IF BackendRaises(Head(s))
          THEN << <<Head(s), " failed: ">> \o ex_out[Head(s)].value >>
          ELSE <<>>)
         \o ExpectedErrors(Tail(s))

\* C7: when backends were attempted and none produced non-empty text, the
\* text returned is a non-empty diagnostic that names each backend that
\* raised together with its error, and it is the "No text detected"
\* diagnostic exactly when no attempted backend raised (an empty result is
\* not listed as a failure).
C7_DiagnosticWhenNoText ==
    (/\ ex_result.called
     /\ is_ready(engines)
     /\ \A k \in 1..Len(ex_result.invoked) : TrimmedOutput(ex_result.invoked[k]) = <<>>)
    => LET errs == ExpectedErrors(ex_result.invoked)
       IN /\ ex_result.ret # <<>>
          /\ ex_result.ret[1] = "Text extraction failed. Errors: "
          /\ Tail(ex_result.ret) =
               (IF errs = <<>> THEN <<"No text detected">> ELSE join(<<"; ">>, errs))
          /\ (Tail(ex_result.ret) = <<"No text detected">>)
               <=> RaisedAmong(ex_result.invoked) = {}

\* A call in which one backend raised and another returned only blanks:
\* the diagnostic names the first and not the second.
C7_Witness ==
    /\ ex_result.called
    /\ ex_result.invoked = <<"easyocr", "paddleocr">>
    /\ BackendRaises("easyocr")
    /\ ex_out["paddleocr"] = Returned(<<" ">>)
    /\ ex_result.ret = <<"Text extraction failed. Errors: ", "easyocr", " failed: ", "boom">>

(***************************************************************************)
(* Properties of one task (under SpecOneTask)                              *)
(***************************************************************************)
Created == 1..(next_id - 1)

\* C1: in every state in which a task's status is completed, it has one
\* result per valid file of its submission, files_processed is that number
\* and progress is 100.
C1_CompletedMeansAllCounted ==
    \A id \in Created :
      records[id].status = "completed" =>
        /\ Len(records[id].results) = Len(runner[id].files)
        /\ records[id].files_processed = Len(runner[id].files)
        /\ records[id].progress = 100

\* The text line 519 gives for a file that is read and decoded.
ExtractionText(mode) == extract_text(engines, mode, ImageOutcome).ret

FileFails(file) == file.data \in {"corrupt", "unreadable"}

IsPlaceholder(text) == text # <<>> /\ Head(text) = "Error processing file: "

InLoop(id) == runner[id].pc \in {"l506", "l507", "l510"}

AfterLoop(id) == runner[id].pc \in {"l540", "l541", "l542", "l543", "done"}

\* C2: the runner appends exactly one entry per input file, in input order:
\* for a file whose read or preprocessing fails an error placeholder at that
\* file's index, for every other file the extraction text; a failing file
\* stops nothing (the files after it are processed), and once the loop is
\* over the task is set to completed, never to error.
C2_PerFileIsolation ==
    \A id \in Created :
      LET r == runner[id]
          res == records[id].results
      IN /\ InLoop(id) => Len(res) = r.i /\ r.i < Len(r.files)
         /\ AfterLoop(id) => Len(res) = Len(r.files)
         /\ Len(res) <= Len(r.files)
         /\ \A k \in 1..Len(res) :
              /\ res[k].filename = secure_filename(r.files[k].filename)
              /\ FileFails(r.files[k]) => IsPlaceholder(res[k].text)
              /\ ~FileFails(r.files[k]) => res[k].text = ExtractionText(r.mode)
         /\ records[id].status # "error"
         /\ r.pc \in {"l541", "l542", "l543", "done"} => records[id].status = "completed"

\* A finished task of three files of which the first could not be read and
\* the second not decoded: two placeholders, then the text of the third.
C2_Witness ==
    /\ runner[1].pc = "done"
    /\ Len(runner[1].files) = 3
    /\ runner[1].files[1].data = "unreadable"
    /\ runner[1].files[2].data = "corrupt"
    /\ runner[1].files[3].data = "image"
    /\ records[1].status = "completed"
    /\ IsPlaceholder(records[1].results[2].text)
    /\ records[1].results[3].text = <<"B">>

\* C8: along every execution, from one state to the next, no task's
\* progress and no task's files_processed decreases.
C8_ProgressMonotone ==
    [][\A id \in TaskIds :
         /\ records'[id].progress >= records[id].progress
         /\ records'[id].files_processed >= records[id].files_processed]_vars

\* A task of three files at its third file: progress has moved from 0 over
\* 33 to 66.
C8_Witness ==
    /\ records[1].status = "processing"
    /\ records[1].progress = 66
    /\ records[1].files_processed = 2
    /\ runner[1].pc = "l510"

(***************************************************************************)
(* Properties of the service (under Spec)                                  *)
(***************************************************************************)
Active == {id \in processing_tasks : records[id].status \in {"starting", "processing"}}

\* The ceiling a deployment would configure: the code reads none, so any
\* value below the number of submissions shows what it does.
ConfiguredCeiling == MaxTasks - 1

\* C9: a submission that arrives while the number of active tasks equals
\* the ceiling creates no task record and starts no runner, so the number
\* of active (non-terminal) tasks never exceeds the ceiling.
C9_ActiveWithinCeiling ==
    Cardinality(Active) <= ConfiguredCeiling

Age(id, t) == t - records[id].created_at

SweepStep(h) ==
    /\ handler[h].pc \in {"l302", "l307"}
    /\ handler'[h] # handler[h]

\* C10: when a sweep has completed, no task is left in the table whose age,
\* at the time the sweep read, exceeds the retention window, whatever its
\* status; a task is removed only by a sweep for which its age exceeds the
\* window, and no step of a sweep changes a field of any record; an id once
\* removed never returns to the table, and a status query or download for
\* an id that is not in the table is answered 404 at once.
C10_SweepRemovesExactlyExpired ==
    /\ [](\A h \in Handlers :
            handler[h].pc = "l361" =>
              \A id \in processing_tasks :
                Age(id, handler[h].current_time) <= task_cleanup_threshold)
    /\ [][/\ \A id \in processing_tasks :
               id \notin processing_tasks' =>
                 \E h \in Handlers :
                   /\ SweepStep(h)
                   /\ Age(id, handler[h].current_time) > task_cleanup_threshold
          /\ \A h \in Handlers : SweepStep(h) => records' = records
          /\ \A id \in Created : id \notin processing_tasks => id \notin processing_tasks'
          /\ \A h \in Handlers :
               /\ handler[h].pc = "idle" /\ handler'[h].pc \in {"l437", "l459"}
                    => handler'[h].task_id \in processing_tasks
               /\ (/\ handler[h].pc = "idle"
                   /\ handler'[h].pc = "responded"
                   /\ handler'[h].response.route \in {"progress", "download"})
                    => /\ handler'[h].response.code = 404
                       /\ handler'[h].response.task_id \notin processing_tasks]_vars

\* A sweep has just completed: it removed the first task, which was still
\* being processed, and left the second, whose age is exactly the window.
C10_Witness ==
    \E h \in Handlers :
      /\ handler[h].pc = "l361"
      /\ processing_tasks = {2}
      /\ records[1].status = "processing"
      /\ Age(1, handler[h].current_time) > task_cleanup_threshold
      /\ Age(2, handler[h].current_time) <= task_cleanup_threshold

(***************************************************************************)
(* Properties of requests against the task table and its runners           *)
(***************************************************************************)
\* C11: the sweep runs before every status and listing query: a status
\* query for a task whose age exceeds the retention window finds no record
\* (it is answered not-found, even when no submission arrived since the task
\* expired), and a listing counts no task whose age exceeds the window.
\* (A property of Spec.)
C11_SweepBeforeEveryQuery ==
    [][\A h \in Handlers :
         /\ (handler[h].pc = "idle" /\ handler'[h].pc = "l437")
              => Age(handler'[h].task_id, now) <= task_cleanup_threshold
         /\ (/\ handler[h].pc = "idle"
             /\ handler'[h].pc = "responded"
             /\ handler'[h].response.route = "status")
              => \A id \in processing_tasks :
                   Age(id, now) <= task_cleanup_threshold]_vars

\* C12: after a task record is created, only the task's own runner changes
\* a field of it: in every step that changes the record of a created task,
\* that task's runner takes the step; status queries, downloads and sweeps
\* leave every field of every record as it was.
\* (A property of SpecOneTask.)
C12_SingleWriterPerTask ==
    [][\A id \in Created :
         records'[id] # records[id] => runner'[id] # runner[id]]_vars

\* The runner of a task has ended: it returned, or an exception left it.
Ended(id) == runner[id].pc \in {"done", "died"}

\* C13: a runner that meets an error outside the per-file try, such as its
\* record being gone from the table when it starts, ends with the task's
\* status set to error, the error field populated and completed_at set, and
\* no exception leaves the thread: every runner that has ended left its
\* task completed, or in error with the error and completed_at filled in.
\* (A property of Spec.)
C13_WholeTaskAbort ==
    \A id \in Created :
      /\ runner[id].pc # "died"
      /\ Ended(id) =>
           \/ records[id].status = "completed"
           \/ /\ records[id].status = "error"
              /\ records[id].error # NoError
              /\ records[id].completed_at # Absent

\* The step leaves the task table, every record, every runner and the ids
\* in store as they were.
Untouched ==
    /\ processing_tasks' = processing_tasks
    /\ records' = records
    /\ runner' = runner
    /\ next_id' = next_id

InUpload(pc) == pc \in {"l302", "l307", "l361"}

\* Thread h takes a step of a submission that is turned down (no engine, no
\* file part, no valid file, body too large).
RejectedSubmissionStep(h) ==
    /\ handler'[h] # handler[h]
    /\ InUpload(handler[h].pc) \/ InUpload(handler'[h].pc)
    /\ LET req == IF InUpload(handler[h].pc) THEN handler[h].request
                  ELSE handler'[h].request
       IN ocr_engine = None \/ UploadRejection(req) # NoResponse

\* Thread h answers a status query for an id that is not in the table, or a
\* download for such an id or for a task that is not completed.
RejectedQueryStep(h) ==
    /\ handler'[h].pc = "responded"
    /\ \/ /\ handler[h].pc = "idle"
          /\ handler'[h].response.route \in {"progress", "download"}
       \/ /\ handler[h].pc = "l459"
          /\ handler'[h].response.code # 200

\* C14 as stated: a request that is rejected leaves the task table exactly
\* as it was before the request: no step of it adds, removes or modifies a
\* record or starts a runner.
\* (A property of Spec.)
C14_RejectedRequestTouchesNothing ==
    [][\A h \in Handlers :
         (RejectedSubmissionStep(h) \/ RejectedQueryStep(h)) => Untouched]_vars

\* C14 as amended: a rejected request adds no record, modifies no record and
\* starts no runner; a rejected status query or download leaves the table
\* exactly as it was, while a rejected submission removes the records that
\* its sweep, which runs before the validation, finds older than the
\* retention window, and only those.
\* (A property of Spec.)
C14_RejectedRequestOnlySweeps ==
    [][\A h \in Handlers :
         /\ RejectedQueryStep(h) => Untouched
         /\ RejectedSubmissionStep(h) =>
              /\ processing_tasks' \subseteq processing_tasks
              /\ \A id \in processing_tasks \ processing_tasks' :
                   Age(id, handler[h].current_time) > task_cleanup_threshold
              /\ records' = records
              /\ runner' = runner
              /\ next_id' = next_id]_vars

\* A submission without a valid file was just turned down, after its sweep
\* removed the one task there was.
C14_Witness ==
    \E h \in Handlers :
      /\ handler[h].pc = "responded"
      /\ handler[h].response = Response("upload", 400, <<"No valid image files found">>, 0)
      /\ next_id = 2
      /\ processing_tasks = {}

\* The report has one block per result, in the order of the results: the
\* numbered file line with the result's filename, then its text.
ReportsEachOnceInOrder(body, results) ==
    /\ Len(body) = 3 + 4 * Len(results)
    /\ \A k \in 1..Len(results) :
         /\ body[4 * k] = [line |-> "file", index |-> k, text |-> results[k].filename]
         /\ body[4 * k + 2] = [line |-> "text", index |-> 0, text |-> results[k].text]
    /\ Cardinality({j \in 1..Len(body) : body[j].line = "file"}) = Len(results)

\* C15: a download produces a report exactly for a task that is in the
\* table, completed and with results, and the report holds the results once
\* each in their order; for a task in the table that is not completed or has
\* no results the answer is 400, which differs from the 404 given for an id
\* that is not in the table.
\* (A property of SpecOneTask.)
C15_DownloadPrecondition ==
    [][\A h \in Handlers :
         /\ (handler[h].pc = "l459" /\ handler'[h].pc = "responded") =>
              LET task_id == handler[h].task_id
                  task == records[task_id]
                  resp == handler'[h].response
              IN /\ resp.code = 200 <=>
                      /\ task_id \in processing_tasks
                      /\ task.status = "completed"
                      /\ task.results # <<>>
                 /\ resp.code = 200 => ReportsEachOnceInOrder(resp.body, task.results)
                 /\ (/\ task_id \in processing_tasks
                     /\ task.status # "completed" \/ task.results = <<>>)
                      => resp.code = 400 /\ resp.body = <<>>
         /\ (/\ handler[h].pc = "idle"
             /\ handler'[h].pc = "responded"
             /\ handler'[h].response.route = "download")
              => /\ handler'[h].response.code = 404
                 /\ handler'[h].response.task_id \notin processing_tasks]_vars

\* The report of a completed task of three files was just produced.
C15_Witness ==
    \E h \in Handlers :
      /\ handler[h].pc = "responded"
      /\ handler[h].response.route = "download"
      /\ handler[h].response.code = 200
      /\ Len(handler[h].response.body) = 15
      /\ records[1].status = "completed"
      /\ Len(records[1].results) = 3

\* C16: a submission's files with a disallowed extension or over the size
\* limit are dropped; if a file remains, the submission creates exactly one
\* record (status starting, progress 0, files_processed 0, no results,
\* total_files the number of files that remain) and starts exactly one
\* runner over those files in their submitted order; if none remains, the
\* submission fails and creates no record and no runner.
\* (A property of SpecOneTask.)
C16_SubmissionValidation ==
    [][\A h \in Handlers :
         (/\ handler[h].pc = "l361"
          /\ handler'[h].pc = "responded"
          /\ ocr_engine # None) =>
           LET req == handler[h].request
               kept == valid_files(req.files)
               resp == handler'[h].response
           IN IF kept # <<>>
              THEN /\ resp.code = 200
                   /\ resp.task_id = next_id
                   /\ next_id' = next_id + 1
                   /\ processing_tasks' = processing_tasks \cup {next_id}
                   /\ records'[next_id] = NewTask(Len(kept), now)
                   /\ runner'[next_id] =
                        [pc |-> "l501", i |-> 0, files |-> kept, mode |-> req.mode]
                   /\ \A id \in TaskIds \ {next_id} :
                        records'[id] = records[id] /\ runner'[id] = runner[id]
              ELSE resp.code # 200 /\ Untouched]_vars

\* C17: a sweep that removes a task whose runner is in flight does not stop
\* the runner: for a task that is out of the table, the runner is never
\* ended by an exception and, when it is done, has completed the detached
\* record with an entry for every file; no step puts the record back into
\* the table, and every status query or download for the id is answered
\* not-found.
\* (A property of Spec.)
C17_SweptRunnerRunsOn ==
    [][\A id \in Created :
         id \notin processing_tasks =>
           /\ runner'[id].pc # "died"
           /\ runner'[id].pc = "done" =>
                /\ records'[id].status = "completed"
                /\ Len(records'[id].results) = Len(runner'[id].files)
           /\ id \notin processing_tasks'
           /\ \A h \in Handlers :
                handler[h].pc = "idle" =>
                  /\ ~(handler'[h].pc \in {"l437", "l459"} /\ handler'[h].task_id = id)
                  /\ (/\ handler'[h].pc = "responded"
                      /\ handler'[h].response.route \in {"progress", "download"}
                      /\ handler'[h].response.task_id = id)
                       => handler'[h].response.code = 404]_vars

\* C18: in every state in which a task's status is processing, the number
\* of its results and files_processed differ by at most one; in every state
\* in which its status is completed, or error with the runner ended, the two
\* are equal.
\* (A property of SpecOneTask.)
C18_ResultsCounterRelation ==
    \A id \in Created :
      LET task == records[id]
          lag == Len(task.results) - task.files_processed
      IN /\ task.status = "processing" => lag \in {0 - 1, 0, 1}
         /\ task.status = "completed" => lag = 0
         /\ (task.status = "error" /\ Ended(id)) => lag = 0

(***************************************************************************)
(* Properties of concurrent submissions (under SpecConcurrent)             *)
(***************************************************************************)
\* C19: the task table is safe under concurrent use: when a sweep
\* interleaves with a submission that inserts a record, with another sweep
\* or with runners, no request fails (none is answered 500), a record is
\* removed only by a sweep for which it is expired, and the removal of a
\* record that is already gone raises no error.
C19_TableSafeUnderConcurrency ==
    [][\A h \in Threads :
         /\ handler'[h].pc = "responded" => handler'[h].response.code # 500
         /\ (handler[h].pc = "l307" /\ handler'[h] # handler[h]) =>
              /\ handler'[h].pc \in {"l307", "l361"}
              /\ \A id \in processing_tasks \ processing_tasks' :
                   Age(id, handler[h].current_time) > task_cleanup_threshold]_vars

(***************************************************************************)
(* Properties of a long batch (under SpecLongBatch)                        *)
(***************************************************************************)
\* C20: for a batch of n files, right before the file of 0-based index i is
\* read the runner has set files_processed to i and progress to
\* floor(100 * i / n), and progress is 100 only once the completion step
\* after the last file has set it.
C20_ProgressAccounting ==
    \A id \in Created :
      LET r == runner[id]
          n == Len(r.files)
      IN /\ r.pc = "l510" =>
              /\ records[id].files_processed = r.i
              /\ records[id].progress = (100 * r.i) \div n
         /\ records[id].progress = 100 => r.pc \in {"l542", "l543", "done"}

(***************************************************************************)
(* The life of a task                                                      *)
(***************************************************************************)
Statuses == {"starting", "processing", "completed", "error"}

\* The changes of status the state machine allows.
StatusTransitions ==
    {<<"starting", "processing">>, <<"processing", "completed">>,
     <<"starting", "error">>, <<"processing", "error">>}

\* C21: a task's status is always one of starting, processing, completed,
\* error; it changes only from starting to processing, from processing to
\* completed and from starting or processing to error; once it is completed
\* or error, the status, progress, files_processed and results of the task
\* never change again; and the error field is set only when the status is
\* error.
\* (A property of SpecOneTask.)
C21_StatusStateMachine ==
    [][\A id \in Created :
         LET old == records[id]
             new == records'[id]
         IN /\ old.status \in Statuses /\ new.status \in Statuses
            /\ new.status # old.status =>
                 <<old.status, new.status>> \in StatusTransitions
            /\ old.status \in {"completed", "error"} =>
                 /\ new.status = old.status
                 /\ new.progress = old.progress
                 /\ new.files_processed = old.files_processed
                 /\ new.results = old.results
            /\ new.error # NoError => new.status = "error"]_vars

\* C22: under fair scheduling, every task created by an accepted submission
\* eventually reaches status completed or error, whether or not the
\* submitting request has returned, whatever the other runners do, and
\* whether or not the record is swept in the meantime.
\* (A property of FairSpec.)
C22_EveryTaskTerminates ==
    \A id \in TaskIds :
      (records[id].status = "starting")
        ~> (records[id].status \in {"completed", "error"})

====
